---- MODULE Spec2Model ----
(***************************************************************************)
(* FAQ mapping between the Gladly knowledge base (source) and the Shopify  *)
(* theme FAQ document (destination).                                       *)
(*                                                                         *)
(* Texts (titles, bodies, handles, csv cells) are sequences of one-        *)
(* character strings.  Python's None and pandas' NaN are the two           *)
(* one-element sequences PyNone and NaN, whose element is no character.    *)
(* Source ids, section ids and block ids are atoms (strings, numbers).     *)
(***************************************************************************)
EXTENDS Integers, Sequences, FiniteSets, TLC

\* ------------------------------------------------------------- bounds
\* blocks of the Shopify document before the first patcher call, and the
\* blocks it may grow to
MaxInitBlocks == 1
MaxBlocks == 2
\* blocks of the Shopify document create_mapping reads
MaxFaqs == 2
\* sync_language_faqs runs in one behaviour
MaxRuns == 2
\* entries the source feed returns for one run
MaxEntries == 2
\* rows of the mapping file before the first run
MaxStore == 1
\* characters of a title after its padding, and calls on one title
MaxTitleLen == 3
MaxHandleCalls == 2

\* ------------------------------------------------------------- values
PyNone == <<"<None>">>
NaN == <<"<NaN>">>
Empty == <<>>

\* Python's  a != b  on texts, None and float NaN: NaN differs from
\* everything, itself included.
PyNeq(a, b) == a = NaN \/ b = NaN \/ a # b

\* Python truthiness of a text, None or NaN (NaN is a non-zero float).
Truthy(v) == v # PyNone /\ v # Empty

\* pandas DataFrame.to_csv: None, NaN and the empty string are all written
\* as an empty cell.
ToCsv(v) == IF v \in {PyNone, NaN, Empty} THEN Empty ELSE v

\* pandas read_csv: an empty cell is read back as NaN.
FromCsv(c) == IF c = Empty THEN NaN ELSE c

\* ------------------------------------------------ generate_question_handle
LowerLetters ==
    <<"a","b","c","d","e","f","g","h","i","j","k","l","m",
      "n","o","p","q","r","s","t","u","v","w","x","y","z">>
UpperLetters ==
    <<"A","B","C","D","E","F","G","H","I","J","K","L","M",
      "N","O","P","Q","R","S","T","U","V","W","X","Y","Z">>
Digits == {"0","1","2","3","4","5","6","7","8","9"}
Whitespace == {" ", "\t", "\n"}
Hyphen == "-"
MaxHandleLen == 50
Placeholder == <<"f","a","q","-","q","u","e","s","t","i","o","n">>

Range(s) == {s[i] : i \in DOMAIN s}

\* two characters outside ASCII, each named by its code point: the Kelvin
\* sign, whose lower case is the ASCII letter k, and e with acute accent
KelvinSign == "<U+212A>"
EAcute == "<U+00E9>"

\* str.lower() on one character
LowerChar(c) ==
    IF c = KelvinSign THEN "k"
    ELSE IF \E i \in DOMAIN UpperLetters : UpperLetters[i] = c
    THEN LowerLetters[CHOOSE i \in DOMAIN UpperLetters : UpperLetters[i] = c]
    ELSE c

LowerStr(s) == [i \in DOMAIN s |-> LowerChar(s[i])]

IsAlnum(c) == c \in Range(LowerLetters) \/ c \in Range(UpperLetters) \/ c \in Digits

\* re.sub(r'[^a-zA-Z0-9\s]', '', s)
RECURSIVE StripSpecial(_)
StripSpecial(s) ==
    IF s = <<>> THEN <<>>
    ELSE IF IsAlnum(Head(s)) \/ Head(s) \in Whitespace
         THEN <<Head(s)>> \o StripSpecial(Tail(s))
         ELSE StripSpecial(Tail(s))

\* re.sub(r'\s+', '-', s)
RECURSIVE CollapseSpaces(_)
CollapseSpaces(s) ==
    IF s = <<>> THEN <<>>
    ELSE IF Head(s) \in Whitespace
         THEN IF Len(s) > 1 /\ s[2] \in Whitespace
              THEN CollapseSpaces(Tail(s))
              ELSE <<Hyphen>> \o CollapseSpaces(Tail(s))
         ELSE <<Head(s)>> \o CollapseSpaces(Tail(s))

\* str.lstrip('-') and str.rstrip('-')
RECURSIVE LStrip(_)
LStrip(s) == IF s # <<>> /\ Head(s) = Hyphen THEN LStrip(Tail(s)) ELSE s

RECURSIVE RStrip(_)
RStrip(s) ==
    IF s # <<>> /\ s[Len(s)] = Hyphen THEN RStrip(SubSeq(s, 1, Len(s) - 1)) ELSE s

\* a truncation that keeps a hyphen at the cut
TruncateNoStrip(s) ==
    IF Len(s) > MaxHandleLen THEN SubSeq(s, 1, MaxHandleLen) ELSE s

\* lines 43-44
Truncate(s) ==
    IF Len(s) > MaxHandleLen THEN RStrip(SubSeq(s, 1, MaxHandleLen)) ELSE s

\* FAQMapper.generate_question_handle; title is a text (None has no lower()
\* and raises, see SyncUnmapped)
generate_question_handle(title) ==
    LET handle == Truncate(RStrip(LStrip(CollapseSpaces(StripSpecial(LowerStr(title))))))
    IN  IF handle = <<>> THEN Placeholder ELSE handle

\* ------------------------------------------------------ Shopify document
\* The document is [sections |-> function from section id to section]; a
\* section is [blocks, block_order, settings]; blocks is the JSON object of
\* the section as Python reads it: a sequence of [id, type, settings] in key
\* order, ids pairwise distinct.
DefaultSection == "16559995512cedd4bd"
SyncSection == "faq_questions_VHRPQY"
\* MAPPING_CONFIG's default_category and default_icon, shortened
DefaultCategory == <<"G">>
DefaultIcon == <<"b">>
NoSection == "<None>"

BlockIds(sec) == {sec.blocks[i].id : i \in DOMAIN sec.blocks}

AllBlockIds(d) ==
    UNION {BlockIds(d.sections[s]) \cup Range(d.sections[s].block_order)
           : s \in DOMAIN d.sections}

SetMax(S) == IF S = {} THEN 0 ELSE CHOOSE m \in S : \A x \in S : x <= m

\* str(uuid.uuid4()): an id no block of the document carries
NewBlockId(d) ==
    CHOOSE n \in 1..(Cardinality(AllBlockIds(d)) + 1) :
        /\ n \notin AllBlockIds(d)
        /\ \A m \in 1..(n - 1) : m \in AllBlockIds(d)

\* list.remove(x): drops the first occurrence only
RECURSIVE ListRemove(_, _)
ListRemove(s, x) ==
    IF s = <<>> THEN <<>>
    ELSE IF Head(s) = x THEN Tail(s)
         ELSE <<Head(s)>> \o ListRemove(Tail(s), x)

\* del blocks[key]
DictDel(blocks, key) == SelectSeq(blocks, LAMBDA b : b.id # key)

\* One HTTP request to the theme asset API: what it is, the document it
\* carries (for "get", the document on the store) and whether it succeeded.
Request(op, value, ok) == [op |-> op, value |-> value, ok |-> ok]

\* the document add_faq_question builds in memory (lines 99-123)
AddedDocument(d, target, question_handle, heading, content, category, icon) ==
    LET sec == d.sections[target]
        new_block == [id |-> NewBlockId(d),
                      type |-> "question",
                      settings |-> [question_handle |-> question_handle,
                                    heading |-> heading,
                                    question_content |-> content]]
        sec2 == [blocks |-> Append(sec.blocks, new_block),
                 block_order |-> Append(sec.block_order, new_block.id),
                 settings |->
                    [question_category |->
                        IF Truthy(category) THEN category
                        ELSE sec.settings.question_category,
                     icon_faq |->
                        IF Truthy(icon) THEN icon ELSE sec.settings.icon_faq]]
    IN  [d EXCEPT !.sections[target] = sec2]

\* self.config.get("backup_enabled", True) of lines 95 and 195: the client is
\* built on SHOPIFY_CONFIG, which has no such key, so the default applies
backup_enabled == TRUE

\* the requests made before the document is changed: the read, and the backup
\* when it is enabled
ReadAndBackup(get, backup) == IF backup_enabled THEN <<get, backup>> ELSE <<get>>

\* a patcher that gives up when the backup failed
ProceedOnlyIfBackedUp(backup_ok) == backup_ok

\* lines 96-97: a failed backup is reported and the call goes on
ProceedAfterBackup(backup_ok) == TRUE

\* a PUT that leaves the new document on the store also when it failed
StoredAfterPutAlways(d, updated, put_ok) == updated

\* lines 135-144 and 229-238: the document on the store after the PUT
StoredAfterPut(d, updated, put_ok) == IF put_ok THEN updated ELSE d

\* ShopifyFAQClient.add_faq_question on the stored document d.  get_ok,
\* backup_ok, put_ok are the outcomes of get_faq_data, backup_faq_data and
\* the PUT of line 136.  The result is the value returned (ok), the document
\* on the store afterwards, the requests issued, in order, and the section
\* the call was aimed at.
add_faq_question(d, question_handle, heading, content, category, icon, section_id, get_ok, backup_ok, put_ok) ==
    LET target == IF section_id # NoSection THEN section_id ELSE DefaultSection
        get == Request("get", d, get_ok)
        backup == Request("backup", d, backup_ok)
    IN  IF ~get_ok
        THEN [ok |-> FALSE, doc |-> d, calls |-> <<get>>, section |-> target]
        ELSE IF ~ProceedAfterBackup(backup_ok) \/ target \notin DOMAIN d.sections
        THEN [ok |-> FALSE, doc |-> d, calls |-> ReadAndBackup(get, backup),
              section |-> target]
        ELSE LET updated == AddedDocument(d, target, question_handle, heading,
                                          content, category, icon)
             IN  [ok |-> put_ok,
                  doc |-> StoredAfterPut(d, updated, put_ok),
                  calls |-> ReadAndBackup(get, backup)
                                \o <<Request("put", updated, put_ok)>>,
                  section |-> target]

\* the block remove_faq_question picks: the first question block, in key
\* order, whose handle is the one given; 0 when there is none (lines 199-208)
BlockToRemove(d, target, question_handle) ==
    IF target \notin DOMAIN d.sections THEN 0
    ELSE LET blocks == d.sections[target].blocks
             hits == {i \in DOMAIN blocks :
                        /\ blocks[i].type = "question"
                        /\ blocks[i].settings.question_handle = question_handle}
         IN  IF hits = {} THEN 0
             ELSE blocks[CHOOSE i \in hits : \A j \in hits : i <= j].id

\* a removal that forgets the order list
RemovedDocumentBlocksOnly(d, target, block_id) ==
    [d EXCEPT !.sections[target].blocks = DictDel(@, block_id)]

\* the document remove_faq_question builds in memory (lines 214-217)
RemovedDocument(d, target, block_id) ==
    [d EXCEPT !.sections[target] =
        [@ EXCEPT !.blocks = DictDel(@, block_id),
                  !.block_order = ListRemove(@, block_id)]]

\* ShopifyFAQClient.remove_faq_question on the stored document d
remove_faq_question(d, question_handle, section_id, get_ok, backup_ok, put_ok) ==
    LET target == IF section_id # NoSection THEN section_id ELSE DefaultSection
        get == Request("get", d, get_ok)
        backup == Request("backup", d, backup_ok)
        block_to_remove == BlockToRemove(d, target, question_handle)
    IN  IF ~get_ok
        THEN [ok |-> FALSE, doc |-> d, calls |-> <<get>>, section |-> target]
        ELSE IF block_to_remove = 0
        THEN [ok |-> FALSE, doc |-> d, calls |-> ReadAndBackup(get, backup),
              section |-> target]
        ELSE LET updated == RemovedDocument(d, target, block_to_remove)
             IN  [ok |-> put_ok,
                  doc |-> StoredAfterPut(d, updated, put_ok),
                  calls |-> ReadAndBackup(get, backup)
                                \o <<Request("put", updated, put_ok)>>,
                  section |-> target]

\* ------------------------------------------------------- mapping_ids.py
\* a gladly_id written where a handle is expected: a text of its own
IdText(id) == <<id>>

\* update_question_handles_to_gladly_ids: every question block whose handle
\* equals the bosapin_handle of a row of mapping_df gets the gladly_id of the
\* first such row as its handle
update_question_handles_to_gladly_ids(faq_data, mapping_df) ==
    LET Matching(current_handle) ==
            {k \in DOMAIN mapping_df : mapping_df[k].bosapin_handle = current_handle}
        First(K) == CHOOSE k \in K : \A j \in K : k <= j
        NewBlock(block) ==
            IF block.type = "question"
               /\ Matching(block.settings.question_handle) # {}
            THEN [block EXCEPT !.settings.question_handle =
                    IdText(mapping_df[First(Matching(@))].gladly_id)]
            ELSE block
    IN  [sections |->
            [sec \in DOMAIN faq_data.sections |->
                [faq_data.sections[sec] EXCEPT !.blocks =
                    [i \in DOMAIN @ |-> NewBlock(@[i])]]]]

\* a bulk update that sends no backup
bulk_update_handles_unbacked(d, exists, rows, get_ok, backup_ok, put_ok) ==
    LET get == Request("get", d, get_ok)
        updated == update_question_handles_to_gladly_ids(d, rows)
    IN  IF ~exists THEN [ok |-> FALSE, doc |-> d, calls |-> <<>>]
        ELSE IF ~get_ok THEN [ok |-> FALSE, doc |-> d, calls |-> <<get>>]
        ELSE [ok |-> put_ok, doc |-> StoredAfterPut(d, updated, put_ok),
              calls |-> <<get, Request("put", updated, put_ok)>>]

\* bulk_update_handles_from_mapping on the stored document d; exists and rows
\* are the mapping file as pd.read_csv finds it.  Every request raises when it
\* fails (raise_for_status), which ends the function; ok is a normal return.
bulk_update_handles_from_mapping(d, exists, rows, get_ok, backup_ok, put_ok) ==
    LET get == Request("get", d, get_ok)
        backup == Request("backup", d, backup_ok)
        updated == update_question_handles_to_gladly_ids(d, rows)
    IN  IF ~exists THEN [ok |-> FALSE, doc |-> d, calls |-> <<>>]
        ELSE IF ~get_ok THEN [ok |-> FALSE, doc |-> d, calls |-> <<get>>]
        ELSE IF ~backup_ok THEN [ok |-> FALSE, doc |-> d, calls |-> <<get, backup>>]
        ELSE [ok |-> put_ok, doc |-> StoredAfterPut(d, updated, put_ok),
              calls |-> <<get, backup, Request("put", updated, put_ok)>>]

\* ------------------------------------------------------------ mapping file
\* load_mapping: pd.read_csv(...).to_dict("records"); every text cell goes
\* through read_csv's NaN rule.  Ids are non-numeric strings and the time
\* stamp is a non-empty string: both are read back as written.
LoadRecord(row) ==
    [gladly_id |-> row.gladly_id,
     bosapin_handle |-> FromCsv(row.bosapin_handle),
     shopify_question |-> FromCsv(row.shopify_question),
     gladly_question |-> FromCsv(row.gladly_question),
     shopify_answer |-> FromCsv(row.shopify_answer),
     gladly_answer |-> FromCsv(row.gladly_answer),
     updated_time |-> row.updated_time]

load_mapping(rows) == [i \in DOMAIN rows |-> LoadRecord(rows[i])]

SaveRecord(m) ==
    [gladly_id |-> m.gladly_id,
     bosapin_handle |-> ToCsv(m.bosapin_handle),
     shopify_question |-> ToCsv(m.shopify_question),
     gladly_question |-> ToCsv(m.gladly_question),
     shopify_answer |-> ToCsv(m.shopify_answer),
     gladly_answer |-> ToCsv(m.gladly_answer),
     updated_time |-> m.updated_time]

\* a save without the early return
save_mapping_always(mapping_, exists, rows) ==
    [exists |-> TRUE,
     rows |-> [i \in DOMAIN mapping_ |-> SaveRecord(mapping_[i])]]

\* save_mapping: the file afterwards, [exists, rows]; an empty mapping
\* returns before anything is written
save_mapping(mapping_, exists, rows) ==
    IF mapping_ = <<>>
    THEN [exists |-> exists, rows |-> rows]
    ELSE [exists |-> TRUE,
          rows |-> [i \in DOMAIN mapping_ |-> SaveRecord(mapping_[i])]]

\* no gladly_id is carried by two records
DistinctIds(recs) ==
    \A i, j \in DOMAIN recs : recs[i].gladly_id = recs[j].gladly_id => i = j

\* mapping_by_id = {m["gladly_id"]: m for m in mapping}: the position of the
\* record the dict keeps for an id (the last one), 0 when the id is no key
IndexById(mapping_, id) ==
    LET hits == {i \in DOMAIN mapping_ : mapping_[i].gladly_id = id}
    IN  SetMax(hits)

\* ------------------------------------------------------------------ state
VARIABLES
    \* the mapping csv file: whether it exists, and its rows
    mapping_file_exists, mapping_file,
    \* sync_language_faqs: its locals and its position
    mapping, mapping_by_id, gladly_faqs, idx, dry_run, results, pc,
    \* the run completed before the current one, and the runs started
    prev, runs,
    \* the FAQ asset of the Shopify theme
    faq_doc,
    \* the latest step's call of the Shopify client: the method, the value it
    \* returned and the requests it issued
    last_call,
    \* create_mapping: inputs, loop position, locals and result
    cm_gladly, all_bosapin_faqs, cm_score, cm_i, cm_mapping, cm_pc, cm_result,
    \* update_mapping: the list it is called on and the last call
    um_mapping, um_last,
    \* generate_question_handle: the title, the value returned last and the
    \* calls made
    gh_title, gh_handle, gh_calls

syncVars ==
    <<mapping_file_exists, mapping_file, mapping, mapping_by_id, gladly_faqs,
      idx, dry_run, results, pc, prev, runs>>
docVars == <<faq_doc, last_call>>
cmVars == <<cm_gladly, all_bosapin_faqs, cm_score, cm_i, cm_mapping, cm_pc, cm_result>>
umVars == <<um_mapping, um_last>>
ghVars == <<gh_title, gh_handle, gh_calls>>
vars == <<syncVars, docVars, cmVars, umVars, ghVars>>

SeqsUpTo(S, n) == UNION {[1..k -> S] : k \in 0..n}

\* ------------------------------------------------------------ input sets
SourceIds == {"g1", "g2"}
Title1 == <<"Q", " ", "1", "?">>
Body1 == <<"<", "p", ">">>
\* gladly_faq.get("bodyHtml"): a body, possibly empty
Bodies == {Body1, Empty}
\* what the source feed can return: every id with the title and either body,
\* and one entry whose name is missing
SourceEntries ==
    [id : SourceIds, name : {Title1}, bodyHtml : Bodies]
        \cup {[id |-> "g1", name |-> PyNone, bodyHtml |-> Body1]}

\* rows a mapping file holds before the first run, as sync writes them
StoreRows ==
    {[gladly_id |-> i, bosapin_handle |-> Empty, shopify_question |-> ToCsv(n),
      gladly_question |-> ToCsv(n), shopify_answer |-> Empty,
      gladly_answer |-> ToCsv(b), updated_time |-> 0]
     : i \in SourceIds, n \in {Title1}, b \in Bodies}

EmptySection ==
    [blocks |-> <<>>, block_order |-> <<>>,
     settings |-> [question_category |-> Empty, icon_faq |-> Empty]]

ZeroResults ==
    [success |-> TRUE, error |-> "", total_gladly_faqs |-> 0, processed |-> 0,
     added |-> 0, updated |-> 0, skipped |-> 0, errors |-> <<>>]

\* the outcomes of the three requests; after a failed read no other request
\* is made, so its outcome is left at success
Outcomes ==
    {o \in [get_ok : BOOLEAN, backup_ok : BOOLEAN, put_ok : BOOLEAN] :
        o.get_ok \/ (o.backup_ok /\ o.put_ok)}

NoCall ==
    [op |-> "none", ok |-> FALSE, calls |-> <<>>, section |-> NoSection,
     question_handle |-> Empty]

NoRun == [ran |-> FALSE, source |-> <<>>, dry_run |-> TRUE, results |-> ZeroResults]

IdleCM ==
    /\ cm_gladly = <<>> /\ all_bosapin_faqs = <<>> /\ cm_score = <<>>
    /\ cm_i = 0 /\ cm_mapping = <<>> /\ cm_pc = "off" /\ cm_result = <<>>

\* gladly_id=None, the default of update_mapping
NoId == "<None>"
\* no call of update_mapping yet
NoUpdate == [gladly_question |-> Empty, gladly_id |-> NoId, calls |-> 0]

IdleUM == um_mapping = <<>> /\ um_last = NoUpdate

IdleGH == gh_title = <<>> /\ gh_handle = <<>> /\ gh_calls = 0

IdleSync ==
    /\ mapping_file_exists = FALSE /\ mapping_file = <<>>
    /\ mapping = <<>> /\ mapping_by_id = [i \in SourceIds |-> 0]
    /\ gladly_faqs = <<>> /\ idx = 0 /\ dry_run = TRUE
    /\ results = ZeroResults /\ pc = "off" /\ prev = NoRun /\ runs = 0

Init ==
    /\ mapping_file_exists \in BOOLEAN
    /\ mapping_file \in SeqsUpTo(StoreRows, MaxStore)
    /\ (~mapping_file_exists => mapping_file = <<>>)
    /\ mapping = <<>> /\ mapping_by_id = [i \in SourceIds |-> 0]
    /\ gladly_faqs = <<>> /\ idx = 0 /\ dry_run = TRUE
    /\ results = ZeroResults /\ pc = "idle" /\ prev = NoRun /\ runs = 0
    /\ faq_doc \in {[sections |-> (SyncSection :> EmptySection)],
                    [sections |-> (DefaultSection :> EmptySection)]}
    /\ last_call = NoCall
    /\ IdleCM /\ IdleUM /\ IdleGH

\* -------------------------------------------------------- sync_language_faqs
\* lines 107-138, with filter_keywords left at its default, None.  A missing
\* mapping file makes pd.read_csv raise, and the exception leaves
\* sync_language_faqs.
StartSync(language_faqs, dry) ==
    /\ pc \in {"idle", "returned", "raised"}
    /\ runs < MaxRuns
    /\ runs' = runs + 1
    /\ prev' = [ran |-> pc = "returned", source |-> gladly_faqs,
                dry_run |-> dry_run, results |-> results]
    /\ dry_run' = dry
    /\ IF ~mapping_file_exists
       THEN /\ pc' = "raised"
            /\ gladly_faqs' = <<>>
            /\ results' = ZeroResults
            /\ idx' = 0
            /\ UNCHANGED <<mapping, mapping_by_id>>
       ELSE /\ mapping' = load_mapping(mapping_file)
            /\ mapping_by_id' = [i \in SourceIds |-> IndexById(mapping', i)]
            /\ IF language_faqs = <<>>
               THEN /\ pc' = "returned"
                    /\ gladly_faqs' = <<>>
                    /\ results' = [ZeroResults EXCEPT !.success = FALSE,
                                        !.error = "No data from Gladly"]
                    /\ idx' = 0
               ELSE /\ pc' = "loop"
                    /\ gladly_faqs' = language_faqs
                    /\ results' = [ZeroResults EXCEPT !.total_gladly_faqs =
                                        Len(gladly_faqs')]
                    /\ idx' = 1
    /\ last_call' = NoCall
    /\ UNCHANGED <<mapping_file_exists, mapping_file, faq_doc, cmVars, umVars, ghVars>>

\* a drift test that looks at the title only
DriftedTitleOnly(mapping_entry, gladly_question, gladly_answer) ==
    PyNeq(mapping_entry.gladly_question, gladly_question)

\* the comparison of line 149
Drifted(mapping_entry, gladly_question, gladly_answer) ==
    \/ PyNeq(mapping_entry.gladly_question, gladly_question)
    \/ PyNeq(mapping_entry.gladly_answer, gladly_answer)

\* the record of lines 179-187; now is datetime.now()
NewMappingRecord(gladly_id, gladly_question, gladly_answer, now) ==
    [gladly_id |-> gladly_id,
     bosapin_handle |-> Empty,
     shopify_question |-> gladly_question,
     gladly_question |-> gladly_question,
     shopify_answer |-> Empty,
     gladly_answer |-> gladly_answer,
     updated_time |-> now]

\* lines 153-156
UpdatedRecord(mapping_entry, gladly_question, gladly_answer, now) ==
    [mapping_entry EXCEPT !.gladly_question = gladly_question,
                          !.gladly_answer = gladly_answer,
                          !.updated_time = now]

\* lines 147-160: the id is a key of mapping_by_id
SyncMapped(k, gladly_question, gladly_answer) ==
    /\ IF Drifted(mapping[k], gladly_question, gladly_answer)
       THEN /\ mapping' = IF dry_run THEN mapping
                          ELSE [mapping EXCEPT ![k] =
                                   UpdatedRecord(@, gladly_question, gladly_answer, runs)]
            /\ results' = [results EXCEPT !.updated = @ + 1, !.processed = @ + 1]
       ELSE /\ mapping' = mapping
            /\ results' = [results EXCEPT !.skipped = @ + 1, !.processed = @ + 1]
    /\ faq_doc' = faq_doc
    /\ last_call' = NoCall

\* an append that counts the entry as added but not as processed
AppendNewUncounted(gladly_id, gladly_question, gladly_answer) ==
    /\ mapping' = Append(mapping,
                         NewMappingRecord(gladly_id, gladly_question, gladly_answer, runs))
    /\ results' = [results EXCEPT !.added = @ + 1]

\* lines 178-189
AppendNew(gladly_id, gladly_question, gladly_answer) ==
    /\ mapping' = Append(mapping,
                         NewMappingRecord(gladly_id, gladly_question, gladly_answer, runs))
    /\ results' = [results EXCEPT !.added = @ + 1, !.processed = @ + 1]

\* an entry-level failure that also fails the run
RecordErrorAsFailure(results_, msg, faq) ==
    [results_ EXCEPT !.errors = Append(@, [msg |-> msg, faq |-> faq]),
                     !.success = FALSE]

\* results["errors"].append(...) of lines 176 and 193: the description of the
\* failure of entry faq
RecordError(results_, msg, faq) ==
    [results_ EXCEPT !.errors = Append(@, [msg |-> msg, faq |-> faq])]

\* an add branch that takes every insert for done
InsertAssumed(success) == TRUE

\* line 175: if not success, the entry is given up
InsertSucceeded(success) == success

\* lines 161-189: the id is no key of mapping_by_id.  In live mode a None
\* title makes generate_question_handle raise (None has no lower()), which
\* the handler of line 190 records.
SyncUnmapped(gladly_id, gladly_question, gladly_answer, get_ok, backup_ok, put_ok) ==
    IF dry_run
    THEN /\ AppendNew(gladly_id, gladly_question, gladly_answer)
         /\ faq_doc' = faq_doc
         /\ last_call' = NoCall
    ELSE IF gladly_question = PyNone
    THEN /\ results' = RecordError(results, "Error processing FAQ", idx)
         /\ UNCHANGED <<mapping, faq_doc>>
         /\ last_call' = NoCall
    ELSE LET r == add_faq_question(faq_doc,
                      generate_question_handle(gladly_question), gladly_question,
                      gladly_answer, DefaultCategory, DefaultIcon, SyncSection,
                      get_ok, backup_ok, put_ok)
         IN  /\ faq_doc' = r.doc
             /\ last_call' = [op |-> "add", ok |-> r.ok, calls |-> r.calls,
                              section |-> r.section,
                              question_handle |->
                                  generate_question_handle(gladly_question)]
             /\ IF InsertSucceeded(r.ok)
                THEN AppendNew(gladly_id, gladly_question, gladly_answer)
                ELSE /\ results' = RecordError(results, "Failed to add", idx)
                     /\ mapping' = mapping

\* whether this iteration reaches the call of add_faq_question (line 167)
CallsShopify ==
    /\ pc = "loop" /\ idx <= Len(gladly_faqs)
    /\ mapping_by_id[gladly_faqs[idx].id] = 0
    /\ ~dry_run
    /\ gladly_faqs[idx].name # PyNone

\* an iteration that saves the mapping of a live run as it goes
FileAfterEntrySaved(dry, mapping_, exists, rows) ==
    IF dry
    THEN [exists |-> exists, rows |-> rows]
    ELSE save_mapping(mapping_, exists, rows)

\* lines 140-193: the mapping file after an iteration; the loop body holds no
\* call of save_mapping
FileAfterEntry(dry, mapping_, exists, rows) == [exists |-> exists, rows |-> rows]

\* one iteration of the loop of line 140; get_ok, backup_ok and put_ok are
\* the outcomes of the requests add_faq_question makes, if it is called
SyncEntry(get_ok, backup_ok, put_ok) ==
    /\ pc = "loop"
    /\ idx <= Len(gladly_faqs)
    /\ CallsShopify \/ (get_ok /\ backup_ok /\ put_ok)
    /\ LET gladly_faq == gladly_faqs[idx]
           k == mapping_by_id[gladly_faq.id]
       IN  IF k # 0
           THEN SyncMapped(k, gladly_faq.name, gladly_faq.bodyHtml)
           ELSE SyncUnmapped(gladly_faq.id, gladly_faq.name, gladly_faq.bodyHtml,
                             get_ok, backup_ok, put_ok)
    /\ LET f == FileAfterEntry(dry_run, mapping', mapping_file_exists, mapping_file)
       IN  /\ mapping_file_exists' = f.exists
           /\ mapping_file' = f.rows
    /\ idx' = idx + 1
    /\ UNCHANGED <<mapping_by_id, gladly_faqs, dry_run, pc, prev, runs, cmVars,
                   umVars, ghVars>>

\* a save that ignores the mode
FileAfterRunUngated(dry, mapping_, exists, rows) ==
    save_mapping(mapping_, exists, rows)

\* lines 195-196: the mapping file after the loop
FileAfterRun(dry, mapping_, exists, rows) ==
    IF dry
    THEN [exists |-> exists, rows |-> rows]
    ELSE save_mapping(mapping_, exists, rows)

\* lines 195-205
FinishSync ==
    /\ pc = "loop"
    /\ idx > Len(gladly_faqs)
    /\ LET f == FileAfterRun(dry_run, mapping, mapping_file_exists, mapping_file)
       IN  /\ mapping_file_exists' = f.exists
           /\ mapping_file' = f.rows
    /\ pc' = "returned"
    /\ last_call' = NoCall
    /\ UNCHANGED <<mapping, mapping_by_id, gladly_faqs, idx, dry_run, results,
                   prev, runs, faq_doc, cmVars, umVars, ghVars>>

\* FAQMapper.sync_all_languages, lines 212-236: the summary over the results
\* of the languages, in order
RECURSIVE sync_all_languages(_)
sync_all_languages(language_results) ==
    IF language_results = <<>>
    THEN [success |-> TRUE, total_processed |-> 0, total_added |-> 0,
          total_errors |-> 0]
    ELSE LET n == Len(language_results)
             result == language_results[n]
             rest == sync_all_languages(SubSeq(language_results, 1, n - 1))
         IN  IF result.success
             THEN [rest EXCEPT !.total_processed = @ + result.processed,
                               !.total_added = @ + result.added,
                               !.total_errors = @ + Len(result.errors)]
             ELSE [rest EXCEPT !.success = FALSE]

Next ==
    \/ \E faqs \in SeqsUpTo(SourceEntries, MaxEntries), dry \in BOOLEAN :
          StartSync(faqs, dry)
    \/ \E o \in Outcomes : SyncEntry(o.get_ok, o.backup_ok, o.put_ok)
    \/ FinishSync

Spec == Init /\ [][Next]_vars

\* ------------------------------------------- the patcher called on its own
Handle1 == <<"a">>
Handle2 == <<"b">>
BlockKinds ==
    [type : {"question", "text"},
     settings : [question_handle : {Handle1, Handle2}, heading : {Title1},
                 question_content : {Body1}]]

\* a section holding the blocks given, ids 1..n in key order, in the display
\* order given
SectionOf(kinds, order) ==
    [blocks |-> [i \in DOMAIN kinds |->
                    [id |-> i, type |-> kinds[i].type, settings |-> kinds[i].settings]],
     block_order |-> order,
     settings |-> [question_category |-> Empty, icon_faq |-> Empty]]

Reverse(s) == [i \in DOMAIN s |-> s[Len(s) + 1 - i]]

\* documents as Shopify serves them: block_order lists every key of blocks
\* once (Shopify rejects a block_order with a duplicate or an unknown id)
InitialDocuments ==
    LET defaults == UNION {{SectionOf(k, [i \in DOMAIN k |-> i]),
                            SectionOf(k, Reverse([i \in DOMAIN k |-> i]))}
                           : k \in SeqsUpTo(BlockKinds, MaxInitBlocks)}
    IN  {[sections |-> (DefaultSection :> sec)] : sec \in defaults}
        \cup {[sections |-> (DefaultSection :> sec) @@ (SyncSection :> EmptySection)]
              : sec \in defaults}

InitDoc ==
    /\ faq_doc \in InitialDocuments
    /\ last_call = NoCall
    /\ IdleSync /\ IdleCM /\ IdleUM /\ IdleGH

BlockCount(d) ==
    LET secs == DOMAIN d.sections
        RECURSIVE Sum(_)
        Sum(S) == IF S = {} THEN 0
                  ELSE LET x == CHOOSE x \in S : TRUE
                       IN  Len(d.sections[x].blocks) + Sum(S \ {x})
    IN  Sum(secs)

SectionArgs == {NoSection, DefaultSection, SyncSection}

AddFaqQuestion(question_handle, category, section_id, get_ok, backup_ok, put_ok) ==
    /\ BlockCount(faq_doc) < MaxBlocks
    /\ LET r == add_faq_question(faq_doc, question_handle, Title1, Body1, category,
                                 PyNone, section_id, get_ok, backup_ok, put_ok)
       IN  /\ faq_doc' = r.doc
           /\ last_call' = [op |-> "add", ok |-> r.ok, calls |-> r.calls,
                            section |-> r.section,
                            question_handle |-> question_handle]
    /\ UNCHANGED <<syncVars, cmVars, umVars, ghVars>>

RemoveFaqQuestion(question_handle, section_id, get_ok, backup_ok, put_ok) ==
    /\ LET r == remove_faq_question(faq_doc, question_handle, section_id,
                                    get_ok, backup_ok, put_ok)
       IN  /\ faq_doc' = r.doc
           /\ last_call' = [op |-> "remove", ok |-> r.ok, calls |-> r.calls,
                            section |-> r.section,
                            question_handle |-> question_handle]
    /\ UNCHANGED <<syncVars, cmVars, umVars, ghVars>>

\* the rows pd.read_csv returns from the mapping file, as far as
\* mapping_ids.py reads them
BulkRows ==
    {[gladly_id |-> "g1", bosapin_handle |-> FromCsv(h)] : h \in {Handle1, Empty}}

\* a run of mapping_ids.py
BulkUpdateHandles(exists, rows, get_ok, backup_ok, put_ok) ==
    /\ LET r == bulk_update_handles_from_mapping(faq_doc, exists, rows,
                                                 get_ok, backup_ok, put_ok)
       IN  /\ faq_doc' = r.doc
           /\ last_call' = [op |-> "bulk", ok |-> r.ok, calls |-> r.calls,
                            section |-> NoSection, question_handle |-> Empty]
    /\ UNCHANGED <<syncVars, cmVars, umVars, ghVars>>

NextDoc ==
    \/ \E exists \in BOOLEAN, rows \in SeqsUpTo(BulkRows, MaxStore), o \in Outcomes :
          /\ (~exists => rows = <<>>)
          /\ BulkUpdateHandles(exists, rows, o.get_ok, o.backup_ok, o.put_ok)
    \/ \E h \in {Handle1, Handle2}, c \in {PyNone, DefaultCategory},
          sec \in SectionArgs, o \in Outcomes :
          AddFaqQuestion(h, c, sec, o.get_ok, o.backup_ok, o.put_ok)
    \/ \E h \in {Handle1, Handle2}, sec \in SectionArgs, o \in Outcomes :
          RemoveFaqQuestion(h, sec, o.get_ok, o.backup_ok, o.put_ok)

SpecDoc == InitDoc /\ [][NextDoc]_vars

\* ---------------------------------------------------------- create_mapping
TextA == <<"A">>
TextB == <<"B">>
CmTexts == {TextA, TextB}
\* what fuzz.token_sort_ratio can return for two different texts (rapidfuzz
\* returns a float in 0..100; the values on both sides of the threshold)
ScoreValues == {0, 80, 81, 100}
MatchThreshold == 80
SectionOrder == <<DefaultSection, SyncSection>>

\* fuzz.token_sort_ratio(name, heading): 100 for equal texts, and for the two
\* different texts of the model the value cm_score holds
Score(name, heading) == IF name = heading THEN 100 ELSE cm_score

\* lines 54-63: the blocks of every section, in key order
AllBosapinFaqs(d) ==
    LET OfSection(sec) ==
            IF sec \notin DOMAIN d.sections THEN <<>>
            ELSE [i \in DOMAIN d.sections[sec].blocks |->
                    [question_handle |->
                        d.sections[sec].blocks[i].settings.question_handle,
                     heading |-> d.sections[sec].blocks[i].settings.heading,
                     section_id |-> sec,
                     category |-> d.sections[sec].settings.question_category,
                     block_id |-> d.sections[sec].blocks[i].id]]
    IN  OfSection(SectionOrder[1]) \o OfSection(SectionOrder[2])

\* line 71
Better(score, best_score) == score > best_score

\* a threshold that accepts its own value
AcceptedFrom(best_score) == best_score >= MatchThreshold

\* line 74
Accepted(best_score) == best_score > MatchThreshold

\* lines 67-73: best_score and the position of best_match among faqs (0 for
\* None) after the candidates from position i on, starting from acc
RECURSIVE BestMatch(_, _, _, _)
BestMatch(name, faqs, i, acc) ==
    IF i > Len(faqs) THEN acc
    ELSE LET score == Score(name, faqs[i].heading)
         IN  BestMatch(name, faqs, i + 1,
                       IF Better(score, acc.best_score)
                       THEN [best_score |-> score, best_match |-> i]
                       ELSE acc)

\* the documents create_mapping is given: up to MaxFaqs blocks, all in the
\* first section or the last of them in the second
CmDocuments ==
    LET kinds == [type : {"question"},
                  settings : [question_handle : {Handle1, Handle2},
                              heading : CmTexts, question_content : {Body1}]]
        Ids(k) == [i \in DOMAIN k |-> i]
        Whole(k) == [sections |-> (DefaultSection :> SectionOf(k, Ids(k)))]
        Split(k) ==
            [sections |->
                (DefaultSection :>
                    SectionOf(SubSeq(k, 1, Len(k) - 1), Ids(SubSeq(k, 1, Len(k) - 1))))
                @@ (SyncSection :>
                    [SectionOf(<<k[Len(k)]>>, <<Len(k)>>)
                        EXCEPT !.blocks = [i \in {1} |-> [@[1] EXCEPT !.id = Len(k)]]])]
    IN  {Whole(k) : k \in SeqsUpTo(kinds, MaxFaqs)}
        \cup {Split(k) : k \in SeqsUpTo(kinds, MaxFaqs) \ {<<>>}}

NoResult == [raised |-> "", rows |-> <<>>]

InitCM ==
    /\ cm_gladly \in SeqsUpTo([id : SourceIds, name : CmTexts], MaxEntries)
    /\ \E d \in CmDocuments : all_bosapin_faqs = AllBosapinFaqs(d)
    /\ cm_score \in ScoreValues
    /\ cm_i = 1 /\ cm_mapping = <<>> /\ cm_pc = "loop" /\ cm_result = NoResult
    /\ faq_doc = [sections |-> (DefaultSection :> EmptySection)]
    /\ last_call = NoCall
    /\ IdleSync /\ IdleUM /\ IdleGH

\* lines 66-80: one iteration of the outer loop
CreateMappingStep ==
    /\ cm_pc = "loop"
    /\ cm_i <= Len(cm_gladly)
    /\ LET gfaq == cm_gladly[cm_i]
           best == BestMatch(gfaq.name, all_bosapin_faqs, 1,
                             [best_score |-> 0, best_match |-> 0])
       IN  cm_mapping' =
              IF Accepted(best.best_score)
              THEN Append(cm_mapping,
                     [gladly_id |-> gfaq.id,
                      bosapin_handle |->
                          all_bosapin_faqs[best.best_match].question_handle,
                      score |-> best.best_score])
              ELSE cm_mapping
    /\ cm_i' = cm_i + 1
    /\ UNCHANGED <<cm_gladly, all_bosapin_faqs, cm_score, cm_pc, cm_result,
                   syncVars, docVars, umVars, ghVars>>

\* line 83: the left merges with the blocks (on the handle) and with the
\* source entries (on the id); a mapping without records is a frame without
\* columns, and merging it on bosapin_handle raises KeyError
MergedRows(mapping_, faqs, gladly) ==
    LET RECURSIVE Rows(_)
        Rows(i) ==
            IF i > Len(mapping_) THEN <<>>
            ELSE LET m == mapping_[i]
                     fs == SelectSeq(faqs,
                              LAMBDA f : f.question_handle = m.bosapin_handle)
                     gs == SelectSeq(gladly, LAMBDA g : g.id = m.gladly_id)
                     RECURSIVE Pairs(_, _)
                     Pairs(a, b) ==
                        IF a > Len(fs) THEN <<>>
                        ELSE IF b > Len(gs) THEN Pairs(a + 1, 1)
                        ELSE <<[gladly_id |-> m.gladly_id,
                                bosapin_handle |-> m.bosapin_handle,
                                score |-> m.score,
                                heading |-> fs[a].heading,
                                block_id |-> fs[a].block_id,
                                section_id |-> fs[a].section_id,
                                name |-> gs[b].name]>> \o Pairs(a, b + 1)
                 IN  Pairs(1, 1) \o Rows(i + 1)
    IN  Rows(1)

CreateMappingMerge ==
    /\ cm_pc = "loop"
    /\ cm_i > Len(cm_gladly)
    /\ cm_pc' = "done"
    /\ cm_result' =
          IF cm_mapping = <<>>
          THEN [raised |-> "KeyError", rows |-> <<>>]
          ELSE [raised |-> "",
                rows |-> MergedRows(cm_mapping, all_bosapin_faqs, cm_gladly)]
    /\ UNCHANGED <<cm_gladly, all_bosapin_faqs, cm_score, cm_i, cm_mapping,
                   syncVars, docVars, umVars, ghVars>>

NextCM == CreateMappingStep \/ CreateMappingMerge

SpecCM == InitCM /\ [][NextCM]_vars

\* ---------------------------------------------------------- update_mapping
\* a key the record does not have
Absent == <<"<absent>">>
Score90 == <<"9", "0">>

\* Python's  a or b  on texts
PyOr(a, b) == IF Truthy(a) THEN a ELSE b

\* lines 276-285: the record found, after the assignments
UpsertedRecord(m, bosapin_heading, bosapin_handle, score, gladly_id, shopify_question, shopify_answer, gladly_answer) ==
    [m EXCEPT !.bosapin_heading = bosapin_heading,
              !.bosapin_handle = bosapin_handle,
              !.score = score,
              !.updated_time = "now",
              !.gladly_id = IF gladly_id \notin {NoId, ""} THEN gladly_id ELSE @,
              !.shopify_question = IF Truthy(shopify_question) THEN shopify_question ELSE @,
              !.shopify_answer = IF Truthy(shopify_answer) THEN shopify_answer ELSE @,
              !.gladly_answer = IF Truthy(gladly_answer) THEN gladly_answer ELSE @]

\* lines 287-295: the record appended
AppendedRecord(gladly_question, bosapin_heading, bosapin_handle, gladly_id, shopify_question, shopify_answer, gladly_answer) ==
    [gladly_id |-> IF gladly_id = NoId THEN "" ELSE gladly_id,
     bosapin_handle |-> PyOr(bosapin_handle, Empty),
     shopify_question |-> PyOr(shopify_question, PyOr(bosapin_heading, Empty)),
     gladly_question |-> PyOr(gladly_question, Empty),
     shopify_answer |-> PyOr(shopify_answer, Empty),
     gladly_answer |-> PyOr(gladly_answer, Empty),
     updated_time |-> "now",
     bosapin_heading |-> Absent,
     score |-> Absent]

\* line 276: the position of the first record the loop stops at, 0 for none
FoundRecord(mapping_, gladly_question) ==
    LET hits == {k \in DOMAIN mapping_ : mapping_[k].gladly_question = gladly_question}
    IN  IF hits = {} THEN 0 ELSE CHOOSE k \in hits : \A j \in hits : k <= j

\* update_mapping: the list afterwards
update_mapping(mapping_, gladly_question, bosapin_heading, bosapin_handle, score, gladly_id, shopify_question, shopify_answer, gladly_answer) ==
    LET k == FoundRecord(mapping_, gladly_question)
    IN  IF k # 0
        THEN [mapping_ EXCEPT ![k] =
                UpsertedRecord(@, bosapin_heading, bosapin_handle, score, gladly_id,
                               shopify_question, shopify_answer, gladly_answer)]
        ELSE Append(mapping_,
                AppendedRecord(gladly_question, bosapin_heading, bosapin_handle,
                               gladly_id, shopify_question, shopify_answer,
                               gladly_answer))

\* records a mapping list holds before the first call
UmRecords ==
    {[gladly_id |-> i, bosapin_handle |-> Empty, shopify_question |-> q,
      gladly_question |-> q, shopify_answer |-> Empty, gladly_answer |-> Body1,
      updated_time |-> "before", bosapin_heading |-> Absent, score |-> Absent]
     : i \in SourceIds, q \in CmTexts}

InitUM ==
    /\ um_mapping \in SeqsUpTo(UmRecords, MaxStore)
    /\ DistinctIds(um_mapping)
    /\ um_last = NoUpdate
    /\ faq_doc = [sections |-> (DefaultSection :> EmptySection)]
    /\ last_call = NoCall
    /\ IdleSync /\ IdleCM /\ IdleGH

UpdateMapping(gladly_question, score, gladly_id, gladly_answer) ==
    /\ um_mapping' = update_mapping(um_mapping, gladly_question, TextA, Handle1,
                                    score, gladly_id, PyNone, PyNone, gladly_answer)
    /\ um_last' = [gladly_question |-> gladly_question, gladly_id |-> gladly_id,
                   calls |-> (um_last.calls + 1) % 2]
    /\ UNCHANGED <<syncVars, docVars, cmVars, ghVars>>

NextUM ==
    \E q \in CmTexts, sc \in {PyNone, Score90}, id \in SourceIds \cup {NoId},
       a \in {PyNone, Body1} : UpdateMapping(q, sc, id, a)

SpecUM == InitUM /\ [][NextUM]_vars

\* ------------------------------------------- save_mapping called on its own
\* records a caller passes to save_mapping: records as loaded from a file and
\* records as the add branch builds them, the body a text, "" or None
SaveInputs ==
    {LoadRecord(r) : r \in StoreRows}
        \cup {NewMappingRecord(i, Title1, b, 1) : i \in SourceIds,
                                                  b \in {Body1, Empty, PyNone}}

InitSave ==
    /\ mapping_file_exists \in BOOLEAN
    /\ mapping_file \in SeqsUpTo(StoreRows, MaxStore)
    /\ (~mapping_file_exists => mapping_file = <<>>)
    /\ mapping = <<>> /\ mapping_by_id = [i \in SourceIds |-> 0]
    /\ gladly_faqs = <<>> /\ idx = 0 /\ dry_run = TRUE
    /\ results = ZeroResults /\ pc = "off" /\ prev = NoRun /\ runs = 0
    /\ faq_doc = [sections |-> (DefaultSection :> EmptySection)]
    /\ last_call = NoCall
    /\ IdleCM /\ IdleUM /\ IdleGH

\* a call save_mapping(mapping_, mapping_file); pc is "saved" once it returned
SaveMapping(mapping_) ==
    /\ pc \in {"off", "saved"}
    /\ mapping' = mapping_
    /\ LET f == save_mapping(mapping_, mapping_file_exists, mapping_file)
       IN  /\ mapping_file_exists' = f.exists
           /\ mapping_file' = f.rows
    /\ pc' = "saved"
    /\ UNCHANGED <<mapping_by_id, gladly_faqs, idx, dry_run, results, prev, runs,
                   docVars, cmVars, umVars, ghVars>>

NextSave == \E m \in SeqsUpTo(SaveInputs, MaxEntries) : SaveMapping(m)

SpecSave == InitSave /\ [][NextSave]_vars

\* ------------------------------- generate_question_handle called on its own
TitleChars == {"A", "b", "1", " ", "-", "?", EAcute, KelvinSign}

\* n letters in front of a title, to bring it to the length of line 43
Pad(n) == [i \in 1..n |-> "a"]
PadLengths == {0, MaxHandleLen - 2, MaxHandleLen - 1}

\* the titles: every text of up to MaxTitleLen characters behind each
\* padding, and the title that spells the placeholder
Titles ==
    {Pad(n) \o t : n \in PadLengths, t \in SeqsUpTo(TitleChars, MaxTitleLen)}
        \cup {<<"f","a","q"," ","q","u","e","s","t","i","o","n">>}

InitGH ==
    /\ gh_title \in Titles
    /\ gh_handle = <<>> /\ gh_calls = 0
    /\ faq_doc = [sections |-> (DefaultSection :> EmptySection)]
    /\ last_call = NoCall
    /\ IdleSync /\ IdleCM /\ IdleUM

\* a call self.generate_question_handle(title)
GenerateHandle ==
    /\ gh_calls < MaxHandleCalls
    /\ gh_handle' = generate_question_handle(gh_title)
    /\ gh_calls' = gh_calls + 1
    /\ UNCHANGED <<gh_title, syncVars, docVars, cmVars, umVars>>

NextGH == GenerateHandle

SpecGH == InitGH /\ [][NextGH]_vars

\* ------------------------------------------------------------ properties
\* source entries as the feed is meant to deliver them: a name in each, and
\* no id twice
WellFormed(faqs) ==
    /\ \A i \in DOMAIN faqs : faqs[i].name # PyNone
    /\ \A i, j \in DOMAIN faqs : faqs[i].id = faqs[j].id => i = j

SameCounts(r1, r2) ==
    /\ r1.processed = r2.processed /\ r1.added = r2.added
    /\ r1.updated = r2.updated /\ r1.skipped = r2.skipped

\* the run that has just returned was live, with entries, and repeated the
\* source list of the run before it, which was completed in mode prev_dry
RepeatedRun(prev_dry) ==
    /\ pc = "returned" /\ results.success /\ ~dry_run
    /\ prev.ran /\ prev.results.success /\ prev.dry_run = prev_dry
    /\ prev.source = gladly_faqs

\* C1: a live run that repeats the source list of the live run before it adds
\* nothing and updates nothing: every entry is skipped.  Stated for the runs
\* in which no entry failed and for well-formed source lists.
C1_Idempotent ==
    (/\ RepeatedRun(FALSE)
     /\ results.errors = <<>> /\ prev.results.errors = <<>>
     /\ WellFormed(gladly_faqs))
    => (/\ results.added = 0 /\ results.updated = 0
        /\ results.skipped = Len(gladly_faqs))

\* C2: a dry run and the live run over the same mapping file, source list and
\* destination report the same processed, added, updated and skipped counts,
\* also when inserts fail.  Stated for well-formed source lists.
C2_DryRunEquivalence ==
    (RepeatedRun(TRUE) /\ WellFormed(gladly_faqs))
    => SameCounts(results, prev.results)

\* C5: no two records of the mapping in memory, and no two rows of the mapping
\* file, carry the same gladly_id, after any runs over any source lists.  The
\* file before the first run holds at most one row, so no id twice.
C5_UniqueSourceIds ==
    DistinctIds(mapping) /\ DistinctIds(mapping_file)

\* C7: an iteration of a live run that counts an entry as added appends one
\* record: its gladly_id is the entry's id, its handle is the handle generated
\* for the block inserted, and its snapshots are the entry's title and body.
C7_NewRecord ==
    [][(/\ pc = "loop" /\ ~dry_run /\ idx <= Len(gladly_faqs)
        /\ results'.added = results.added + 1)
       => LET e == gladly_faqs[idx]
              rec == mapping'[Len(mapping')]
          IN  /\ Len(mapping') = Len(mapping) + 1
              /\ rec.gladly_id = e.id
              /\ rec.bosapin_handle = generate_question_handle(e.name)
              /\ rec.gladly_question = e.name
              /\ rec.gladly_answer = e.bodyHtml]_vars

\* C8: an entry whose id is a key of the loaded mapping is counted as updated
\* exactly when the stored title or the stored body is not the current one,
\* and as skipped otherwise; a live run leaves the current title and body in
\* the record it updated.
C8_DriftDetection ==
    [][(pc = "loop" /\ idx <= Len(gladly_faqs)
        /\ mapping_by_id[gladly_faqs[idx].id] # 0)
       => LET e == gladly_faqs[idx]
              k == mapping_by_id[e.id]
              differs == \/ mapping[k].gladly_question # e.name
                         \/ mapping[k].gladly_answer # e.bodyHtml
          IN  /\ results'.updated = results.updated + (IF differs THEN 1 ELSE 0)
              /\ results'.skipped = results.skipped + (IF differs THEN 0 ELSE 1)
              /\ results'.added = results.added
              /\ (differs /\ ~dry_run) =>
                    /\ mapping'[k].gladly_question = e.name
                    /\ mapping'[k].gladly_answer = e.bodyHtml]_vars

\* a live run has counted one entry as updated and another as skipped
C8_Witness ==
    /\ pc = "loop" /\ ~dry_run
    /\ results.updated = 1 /\ results.skipped = 1

\* C10: no step of a dry run writes the mapping file, changes the Shopify
\* document or issues a request to the Shopify client.
C10_DryRunFrame ==
    [][((pc = "loop" /\ dry_run) \/ (runs' # runs /\ dry_run'))
       => /\ mapping_file' = mapping_file
          /\ mapping_file_exists' = mapping_file_exists
          /\ faq_doc' = faq_doc
          /\ last_call'.calls = <<>>]_vars

\* a dry run has returned after counting an entry it would add, and its
\* mapping in memory is not what the file holds
C10_Witness ==
    /\ pc = "returned" /\ dry_run /\ results.added >= 1
    /\ mapping # load_mapping(mapping_file)

\* C4: in every section of the stored document the ids of block_order are the
\* keys of blocks, after any sequence of add_faq_question and
\* remove_faq_question calls, failed ones included.
C4_DocumentInvariant ==
    \A sec \in DOMAIN faq_doc.sections :
        Range(faq_doc.sections[sec].block_order) = BlockIds(faq_doc.sections[sec])

\* a removal has succeeded on a document that holds a block added before it
C4_Witness ==
    /\ last_call.op = "remove" /\ last_call.ok
    /\ \E sec \in DOMAIN faq_doc.sections :
          \E i \in DOMAIN faq_doc.sections[sec].blocks :
             faq_doc.sections[sec].blocks[i].settings.question_content = Body1
             /\ faq_doc.sections[sec].settings.question_category = DefaultCategory

\* C3: no two records create_mapping produces carry the same destination
\* handle.  Stated for source entries with pairwise distinct ids and
\* destination blocks with pairwise distinct handles, so that two records
\* with one handle link two source entries to one block.
C3_NoDuplicateLinking ==
    (/\ \A i, j \in DOMAIN cm_gladly : cm_gladly[i].id = cm_gladly[j].id => i = j
     /\ \A i, j \in DOMAIN all_bosapin_faqs :
           all_bosapin_faqs[i].question_handle = all_bosapin_faqs[j].question_handle
              => i = j)
    => \A i, j \in DOMAIN cm_mapping :
          cm_mapping[i].bosapin_handle = cm_mapping[j].bosapin_handle => i = j

\* C9: an iteration of create_mapping appends a record exactly when the
\* highest score among the candidates is above 80 (80 itself gives no record,
\* 81 gives one), and the record carries the handle of the first candidate,
\* in traversal order, that has the highest score.
C9_Threshold ==
    [][(cm_pc = "loop" /\ cm_i <= Len(cm_gladly))
       => LET gfaq == cm_gladly[cm_i]
              cands == DOMAIN all_bosapin_faqs
              sc(j) == Score(gfaq.name, all_bosapin_faqs[j].heading)
              top == SetMax({sc(j) : j \in cands})
              first == CHOOSE j \in cands :
                          /\ sc(j) = top
                          /\ \A k \in cands : sc(k) = top => j <= k
          IN  /\ (top = 80 => cm_mapping' = cm_mapping)
              /\ (top = 81 => Len(cm_mapping') = Len(cm_mapping) + 1)
              /\ (top <= 80 => cm_mapping' = cm_mapping)
              /\ (top > 80 =>
                    cm_mapping' = Append(cm_mapping,
                        [gladly_id |-> gfaq.id,
                         bosapin_handle |-> all_bosapin_faqs[first].question_handle,
                         score |-> top]))]_vars

\* create_mapping has returned a record of score 81 that links the first of
\* two candidates that tie
C9_Witness ==
    /\ cm_pc = "done"
    /\ Len(all_bosapin_faqs) = 2
    /\ all_bosapin_faqs[1].heading = all_bosapin_faqs[2].heading
    /\ all_bosapin_faqs[1].question_handle # all_bosapin_faqs[2].question_handle
    /\ Len(cm_gladly) = 1 /\ Len(cm_mapping) = 1
    /\ cm_mapping[1].score = 81
    /\ cm_mapping[1].bosapin_handle = all_bosapin_faqs[1].question_handle

\* C6: a call of update_mapping with a gladly_id replaces, in place and
\* without changing the length of the list, the record that carries this
\* gladly_id, appends a record only when no record carries it, and so never
\* makes two records share a gladly_id.
C6_UpsertBySourceId ==
    [][(um_last'.gladly_id # NoId /\ um_last'.calls # um_last.calls)
       => LET id == um_last'.gladly_id
              hits == {k \in DOMAIN um_mapping : um_mapping[k].gladly_id = id}
          IN  /\ IF hits # {}
                 THEN /\ Len(um_mapping') = Len(um_mapping)
                      /\ \A k \in DOMAIN um_mapping \ hits :
                            um_mapping'[k] = um_mapping[k]
                 ELSE /\ Len(um_mapping') = Len(um_mapping) + 1
                      /\ um_mapping'[Len(um_mapping')].gladly_id = id
              /\ (DistinctIds(um_mapping) => DistinctIds(um_mapping'))]_vars

\* C11: an iteration in which the entry raises or its insert fails appends
\* exactly one description, for that entry, to the errors of the run and goes
\* on to the next entry; every iteration either does this or counts the entry
\* as processed, and the run returns its counts with success = True after the
\* last entry.
C11_FailureIsolation ==
    [][(pc = "loop")
       => IF idx <= Len(gladly_faqs)
          THEN /\ pc' = "loop" /\ idx' = idx + 1
               /\ \/ /\ results'.processed = results.processed + 1
                     /\ results'.errors = results.errors
                  \/ /\ results'.processed = results.processed
                     /\ results'.errors =
                           Append(results.errors, results'.errors[Len(results'.errors)])
                     /\ results'.errors[Len(results'.errors)].faq = idx
                     /\ mapping' = mapping
               /\ results'.success
          ELSE /\ pc' = "returned" /\ results' = results /\ results.success
               /\ results.processed + Len(results.errors) = Len(gladly_faqs)]_vars

\* a live run has returned after its first entry failed and its second entry
\* was added
C11_Witness ==
    /\ pc = "returned" /\ ~dry_run /\ results.success
    /\ Len(results.errors) = 1 /\ results.errors[1].faq = 1
    /\ results.processed = 1 /\ results.added = 1

\* C12: when the Shopify document cannot be read during a live run, the run
\* stops there with a failure result (success = False), and neither the
\* mapping in memory nor the mapping file is changed.
C12_AbortOnUnreachable ==
    [][(/\ pc = "loop" /\ ~dry_run /\ idx' # idx
        /\ last_call'.op = "add" /\ ~last_call'.calls[1].ok)
       => /\ pc' # "loop"
          /\ ~results'.success
          /\ mapping' = mapping
          /\ mapping_file' = mapping_file
          /\ mapping_file_exists' = mapping_file_exists]_vars

\* C13: a run whose source list is empty does not return the failure result,
\* and sync_all_languages over its result does not report a failure.
C13_EmptySourceNoFailure ==
    (pc = "returned" /\ gladly_faqs = <<>>)
    => /\ results.success
       /\ sync_all_languages(<<results>>).success

\* C14: a run started while the mapping file does not exist loads an empty
\* mapping and goes on; nothing is raised.
C14_MissingStore ==
    [][(pc # "loop" /\ runs' = runs + 1 /\ ~mapping_file_exists)
       => (pc' # "raised" /\ mapping' = <<>>)]_vars

\* C15: save_mapping with an empty mapping leaves the file as it was, whether
\* it existed or not; with a non-empty mapping the file afterwards holds one
\* row per record given, in order, with the record's id and time stamp and
\* every text of the record (None and "" as an empty cell).
C15_SaveEmptyNoOp ==
    [][(pc' = "saved")
       => IF mapping' = <<>>
          THEN /\ mapping_file' = mapping_file
               /\ mapping_file_exists' = mapping_file_exists
          ELSE /\ mapping_file_exists'
               /\ Len(mapping_file') = Len(mapping')
               /\ \A i \in DOMAIN mapping' :
                    LET m == mapping'[i]
                        row == mapping_file'[i]
                        Cell(v) == IF v \in {PyNone, NaN, Empty} THEN Empty ELSE v
                    IN  /\ row.gladly_id = m.gladly_id
                        /\ row.updated_time = m.updated_time
                        /\ row.bosapin_handle = Cell(m.bosapin_handle)
                        /\ row.shopify_question = Cell(m.shopify_question)
                        /\ row.gladly_question = Cell(m.gladly_question)
                        /\ row.shopify_answer = Cell(m.shopify_answer)
                        /\ row.gladly_answer = Cell(m.gladly_answer)]_vars

\* save_mapping has returned from a call with an empty mapping, and the file
\* still holds the row it held
C15_Witness ==
    /\ pc = "saved" /\ mapping = <<>>
    /\ mapping_file_exists /\ Len(mapping_file) = 1

\* C16: a call of add_faq_question or remove_faq_question that returns False
\* leaves the stored document exactly as it was; add_faq_question returns
\* False when the target section is absent, remove_faq_question when no
\* question block of the section carries the handle.
C16_AllOrNothing ==
    [][(last_call'.op \in {"add", "remove"})
       => /\ (~last_call'.ok => faq_doc' = faq_doc)
          /\ (last_call'.op = "add" /\ last_call'.section \notin DOMAIN faq_doc.sections
                => ~last_call'.ok)
          /\ (last_call'.op = "remove"
              /\ BlockToRemove(faq_doc, last_call'.section, last_call'.question_handle) = 0
                => ~last_call'.ok)]_vars

\* add_faq_question has returned False for a section the document does not
\* hold, after the read and the backup, and the document still holds a block
C16_Witness ==
    /\ last_call.op = "add" /\ ~last_call.ok
    /\ last_call.section \notin DOMAIN faq_doc.sections
    /\ Len(last_call.calls) = 2
    /\ BlockCount(faq_doc) >= 1

\* C17: a call of add_faq_question that read the document and is aimed at a
\* section the document holds ends with the PUT of the new document, whether
\* the backup succeeded or not, and returns what the PUT returned.
C17_BackupNonFatal ==
    [][(/\ last_call'.op = "add" /\ last_call'.calls[1].ok
        /\ last_call'.section \in DOMAIN faq_doc.sections)
       => LET c == last_call'.calls
          IN  /\ c[Len(c)].op = "put"
              /\ last_call'.ok = c[Len(c)].ok
              /\ (c[Len(c)].ok => faq_doc' = c[Len(c)].value)]_vars

\* add_faq_question has returned True although its backup failed
C17_Witness ==
    /\ last_call.op = "add" /\ last_call.ok
    /\ Len(last_call.calls) = 3
    /\ last_call.calls[2].op = "backup" /\ ~last_call.calls[2].ok

\* C18: in every call of add_faq_question, remove_faq_question and
\* bulk_update_handles_from_mapping, each PUT of the document comes after a
\* backup request of the same call that carries the document as it was on the
\* store before the call.
C18_BackupPrecedesWrite ==
    [][(last_call'.op \in {"add", "remove", "bulk"})
       => LET c == last_call'.calls
          IN  \A k \in DOMAIN c :
                 c[k].op = "put"
                 => \E j \in 1..(k - 1) : c[j].op = "backup" /\ c[j].value = faq_doc]_vars

\* a bulk update has written a document that differs from the one it backed up
C18_Witness ==
    /\ last_call.op = "bulk" /\ last_call.ok
    /\ Len(last_call.calls) = 3
    /\ last_call.calls[2].op = "backup"
    /\ last_call.calls[3].op = "put"
    /\ last_call.calls[3].value # last_call.calls[2].value
    /\ faq_doc = last_call.calls[3].value

\* the shape of a slug: not empty, at most 50 characters, lowercase letters,
\* digits and hyphens only, no hyphen first or last, no two hyphens in a row
SlugShape(h) ==
    /\ h # <<>> /\ Len(h) <= MaxHandleLen
    /\ \A i \in DOMAIN h : h[i] \in Range(LowerLetters) \cup Digits \cup {Hyphen}
    /\ h[1] # Hyphen /\ h[Len(h)] # Hyphen
    /\ \A i \in 1..(Len(h) - 1) : ~(h[i] = Hyphen /\ h[i + 1] = Hyphen)

HasAlnum(t) == \E i \in DOMAIN t : IsAlnum(t[i])

Alnums(t) == SelectSeq(t, IsAlnum)

IsPrefix(a, b) == Len(a) <= Len(b) /\ SubSeq(b, 1, Len(a)) = a

\* C19 as stated: every call returns the same slug-shaped value, and the value
\* is the placeholder exactly when the title holds no ASCII letter or digit.
C19_SlugAsStated ==
    [][(gh_calls' = gh_calls + 1)
       => /\ SlugShape(gh_handle')
          /\ (gh_calls >= 1 => gh_handle' = gh_handle)
          /\ (gh_handle' = Placeholder <=> ~HasAlnum(gh_title))]_vars

\* C19, amended: every call returns the same slug-shaped value; it is the
\* placeholder when the lowercased title holds no ASCII letter or digit, and
\* otherwise its letters and digits are the first letters and digits of the
\* lowercased title, in order.
C19_Slug ==
    [][(gh_calls' = gh_calls + 1)
       => /\ SlugShape(gh_handle')
          /\ (gh_calls >= 1 => gh_handle' = gh_handle)
          /\ IF HasAlnum(LowerStr(gh_title))
             THEN /\ Alnums(gh_handle') # <<>>
                  /\ IsPrefix(Alnums(gh_handle'), Alnums(LowerStr(gh_title)))
             ELSE gh_handle' = Placeholder]_vars

\* a title longer than 50 characters was cut at a hyphen, twice with the same
\* result
C19_Witness ==
    /\ gh_calls = 2
    /\ Len(gh_title) > MaxHandleLen
    /\ Len(gh_handle) = MaxHandleLen - 1

\* no two blocks of section sec of document d carry the same question_handle
HandlesDistinct(d, sec) ==
    sec \in DOMAIN d.sections
    => \A i, j \in DOMAIN d.sections[sec].blocks :
          d.sections[sec].blocks[i].settings.question_handle
             = d.sections[sec].blocks[j].settings.question_handle
          => i = j

\* C20: a step of a live run over source entries with distinct ids keeps the
\* question_handle values of the blocks of the target section pairwise
\* distinct.
C20_UniqueHandles ==
    [][(/\ pc = "loop" /\ ~dry_run /\ WellFormed(gladly_faqs)
        /\ HandlesDistinct(faq_doc, SyncSection))
       => HandlesDistinct(faq_doc', SyncSection)]_vars

\* C21: within a run the mapping file changes in one step only: the step after
\* the last entry of a live run.  Starting the run and every iteration,
\* inserts included, leave the file as it was loaded, and a dry run never
\* changes it.
C21_WrittenOnceAtEnd ==
    [][/\ (mapping_file' # mapping_file \/ mapping_file_exists' # mapping_file_exists)
          => (/\ pc = "loop" /\ pc' = "returned" /\ ~dry_run
              /\ idx > Len(gladly_faqs))
       /\ (runs' = runs + 1 /\ pc' = "loop")
          => mapping' = load_mapping(mapping_file')
       /\ (pc = "returned") => (runs' = runs + 1)]_vars

\* a live run over two entries has returned with both added and the file
\* rewritten with their rows
C21_Witness ==
    /\ pc = "returned" /\ ~dry_run
    /\ Len(gladly_faqs) = 2 /\ results.added = 2
    /\ Len(mapping_file) >= 2
    /\ mapping_file[Len(mapping_file)].updated_time = runs

\* C22: an iteration of a live run that calls add_faq_question appends the
\* record of the entry exactly when the call returned True; when it returned
\* False the entry is described in errors, added and processed stay as they
\* were and the mapping is unchanged.  No other iteration of a live run
\* appends a record.
C22_FailedInsertNoRecord ==
    [][(pc = "loop" /\ ~dry_run /\ idx <= Len(gladly_faqs))
       => /\ (Len(mapping') > Len(mapping))
             => (last_call'.op = "add" /\ last_call'.ok)
          /\ (last_call'.op = "add" /\ last_call'.ok)
             => /\ Len(mapping') = Len(mapping) + 1
                /\ mapping'[Len(mapping')].gladly_id = gladly_faqs[idx].id
                /\ results'.added = results.added + 1
                /\ results'.processed = results.processed + 1
          /\ (last_call'.op = "add" /\ ~last_call'.ok)
             => /\ mapping' = mapping
                /\ results'.added = results.added
                /\ results'.processed = results.processed
                /\ Len(results'.errors) = Len(results.errors) + 1
                /\ results'.errors[Len(results'.errors)].faq = idx]_vars

\* the PUT of an insert has just failed in a live run, and the mapping holds
\* no record for the entry
C22_Witness ==
    /\ pc = "loop" /\ ~dry_run /\ idx = 2
    /\ last_call.op = "add" /\ ~last_call.ok
    /\ Len(last_call.calls) = 3 /\ ~last_call.calls[3].ok
    /\ \A k \in DOMAIN mapping : mapping[k].gladly_id # gladly_faqs[1].id
    /\ Len(results.errors) = 1 /\ results.added = 0 /\ results.processed = 0

\* the four places an entry can be counted in
Tally(r) == <<r.added, r.updated, r.skipped, Len(r.errors)>>

\* C23: in both modes every iteration of the loop counts its entry in exactly
\* one of added, updated, skipped and errors, processed is always
\* added + updated + skipped, and when the run returns
\* processed + the number of errors is total_gladly_faqs, the number of
\* entries.
C23_CountersConsistent ==
    [][(pc = "loop")
       => /\ results.processed = results.added + results.updated + results.skipped
          /\ results.total_gladly_faqs = Len(gladly_faqs)
          /\ IF idx <= Len(gladly_faqs)
             THEN \E n \in 1..4 :
                     Tally(results') = [Tally(results) EXCEPT ![n] = @ + 1]
             ELSE /\ pc' = "returned" /\ results' = results
                  /\ results.processed + Len(results.errors)
                        = results.total_gladly_faqs]_vars

\* a run over two entries has returned with one entry skipped and the other
\* in errors
C23_Witness ==
    /\ pc = "returned" /\ results.success
    /\ results.total_gladly_faqs = 2
    /\ results.skipped = 1 /\ Len(results.errors) = 1
    /\ results.processed = 1

====
